---- MODULE Spec2Model ----
(***************************************************************************)
(* A model of juju-compose: the resolution of a layer's includes into a    *)
(* chain, the planning of one tactic per output path, the four phases of   *)
(* exec_plan, the manifest, and the delta detection that gates a run on a  *)
(* target that already holds a manifest.                                   *)
(*                                                                         *)
(* A file system is a function from directories to functions from relative *)
(* paths to file contents.  A directory is a sequence of path segments, a  *)
(* relative path a record [dir, stem, ext] (what dirname() and splitext()  *)
(* return), a reference in an includes list a sequence of segments.        *)
(***************************************************************************)
EXTENDS Integers, Sequences, FiniteSets, TLC

VARIABLES
    fs,            \* the file system: directory -> (relpath -> content)
    pc,            \* where Composer.__call__ stands
    err,           \* the exception that ended the run, "" when none
    charm,         \* Composer.charm: the reference of the top layer
    force,         \* Composer.force
    layers,        \* what fetch returned: [layers, interfaces]
    output_files,  \* formulate_plan's OrderedDict: <<relpath, tactic or None>>
    plan,          \* Composer.plan: the tactics in plan order
    idx,           \* the layer (planning) or tactic (execution) handled next
    signatures,    \* exec_plan's signatures dict
    runs,          \* how many invocations have started
    last,          \* the target directory as the last successful run left it
    edited,        \* whether the target was edited by hand since that run
    call,          \* a function called on its own: its name and arguments
    result         \* what that call returned or raised, None before it

vars == <<fs, pc, err, charm, force, layers, output_files, plan, idx,
          signatures, runs, last, edited, call, result>>

-----------------------------------------------------------------------------
(* Bounds of the model. *)

\* How many times the tool is invoked in one behaviour.
MaxRuns == 2

\* The depth of recursion at which the interpreter gives up (RuntimeError).
RecursionLimit == 5

\* In how many choices the repository departs from the plain one.
MaxFeatures == 3

-----------------------------------------------------------------------------
(* Values. *)

\* Python's None and a value that is not None.
None == <<>>
Some(x) == <<x>>

EmptyMap == [k \in {} |-> 0]

\* A node of a parsed YAML document: a scalar or a mapping.
Str(v) == [tag |-> "str", s |-> v, m |-> EmptyMap]
Map(f) == [tag |-> "map", s |-> "", m |-> f]

\* isinstance(v, dict)
IsDict(v) == v.tag = "map"

\* Python's truth value of a node: an empty mapping and an empty string are false.
Truthy(v) == IF IsDict(v) THEN DOMAIN v.m # {} ELSE v.s # ""

\* d.get(k, default) on a mapping given as a function.
Get(d, k, default) == IF k \in DOMAIN d THEN d[k] ELSE default

\* A mapping without one key, and a mapping with one key set.
Without(d, k) == [x \in DOMAIN d \ {k} |-> d[x]]
With(d, k, v) == [x \in DOMAIN d \cup {k} |-> IF x = k THEN v ELSE d[x]]

\* The last two elements of a sequence (all of it when shorter): s[-2:].
LastTwo(s) == IF Len(s) <= 2 THEN s ELSE SubSeq(s, Len(s) - 1, Len(s))

-----------------------------------------------------------------------------
(* utils.deepmerge and utils.delete_path.  Both work on mappings given as  *)
(* functions from keys to nodes.  An exception is a result with ok FALSE.  *)

RECURSIVE DeepmergeOk(_, _)
\* Whether deepmerge(dest, src) returns: it raises when it recurses into a
\* dest value that is a true scalar with a non-empty mapping to merge in.
DeepmergeOk(dest, src) ==
    \A k \in DOMAIN src :
        (k \in DOMAIN dest /\ Truthy(dest[k]) /\ IsDict(src[k])) =>
            IF IsDict(dest[k])
            THEN DeepmergeOk(dest[k].m, src[k].m)
            ELSE DOMAIN src[k].m = {}

RECURSIVE Deepmerge(_, _)
\* The mapping deepmerge(dest, src) returns.
Deepmerge(dest, src) ==
    [k \in DOMAIN dest \cup DOMAIN src |->
        IF k \notin DOMAIN src THEN dest[k]
        ELSE IF k \in DOMAIN dest /\ Truthy(dest[k]) /\ IsDict(src[k])
             THEN IF IsDict(dest[k])
                  THEN Map(Deepmerge(dest[k].m, src[k].m))
                  ELSE dest[k]
             ELSE src[k]]

RECURSIVE DeletePathOk(_, _)
\* Whether delete_path(parts, obj) returns: every part but the last names a
\* mapping, and the last one a key of the mapping reached.
DeletePathOk(parts, obj) ==
    /\ parts # <<>>
    /\ Head(parts) \in DOMAIN obj
    /\ Len(parts) > 1 =>
           /\ IsDict(obj[Head(parts)])
           /\ DeletePathOk(Tail(parts), obj[Head(parts)].m)

\* delete_path removing the first key of the path with all under it.
DeletePath_Mutant(parts, obj) == Without(obj, Head(parts))

RECURSIVE DeletePath(_, _)
\* The mapping after delete_path(parts, obj).
DeletePath(parts, obj) ==
    IF Len(parts) = 1
    THEN Without(obj, Head(parts))
    ELSE With(obj, Head(parts),
              Map(DeletePath(Tail(parts), obj[Head(parts)].m)))

RECURSIVE DeleteAll(_, _)
\* The loop `for key in dels: utils.delete_path(key, namespace)`.
DeleteAll(dels, obj) ==
    IF dels = <<>> THEN [ok |-> TRUE, obj |-> obj]
    ELSE IF ~DeletePathOk(Head(dels), obj) THEN [ok |-> FALSE, obj |-> obj]
    ELSE DeleteAll(Tail(dels), DeletePath(Head(dels), obj))

-----------------------------------------------------------------------------
(* Paths. *)

Rel(d, s, e) == [dir |-> d, stem |-> s, ext |-> e]

MetadataPath == Rel("", "metadata", ".yaml")
ConfigPath   == Rel("", "config", ".yaml")
ComposerPath == Rel("", "composer", ".yaml")
ManifestPath == Rel("", ".composer", ".manifest")
ReadmePath   == Rel("", "README", ".md")
HookPath     == Rel("hooks", "start", "")
PypiPath     == Rel("", "lib", ".pypi")
PkgPath      == Rel("lib", "__init__", ".py")
PycPath      == Rel("", "mod", ".pyc")
ProvidesPath == Rel("", "provides", ".py")

InterfaceYamlPath == Rel("", "interface", ".yaml")

\* The four hooks of a relation, and their file names.
Hooks == <<"joined", "changed", "broken", "departed">>

HookStem(relation_name, hook) ==
    CASE relation_name = "db" /\ hook = "joined"        -> "db-relation-joined"
      [] relation_name = "db" /\ hook = "changed"       -> "db-relation-changed"
      [] relation_name = "db" /\ hook = "broken"        -> "db-relation-broken"
      [] relation_name = "db" /\ hook = "departed"      -> "db-relation-departed"
      [] relation_name = "storage" /\ hook = "joined"   -> "storage-relation-joined"
      [] relation_name = "storage" /\ hook = "changed"  -> "storage-relation-changed"
      [] relation_name = "storage" /\ hook = "broken"   -> "storage-relation-broken"
      [] relation_name = "storage" /\ hook = "departed" -> "storage-relation-departed"

\* target / "hooks" / "<relation>-relation-<hook>"
BindPath(relation_name, hook) == Rel("hooks", HookStem(relation_name, hook), "")
BindPaths(relation_name) == {BindPath(relation_name, Hooks[i]) : i \in DOMAIN Hooks}

\* InterfaceCopy.target: hooks/relations/<interface name> under the target.
RelationsDir(name) ==
    IF name = "mysql" THEN "hooks/relations/mysql" ELSE "hooks/relations"
InitPath(name) == Rel(RelationsDir(name), "__init__", ".py")

\* The module a layer keeps its own tactic classes in.
TacticsPath == Rel("", "tactics", ".py")

\* The order in which a walk of a directory yields its entries.
WalkOrder == <<ComposerPath, ConfigPath, MetadataPath, ReadmePath, HookPath,
               PypiPath, PkgPath, ManifestPath, PycPath, TacticsPath>> \o
             [i \in DOMAIN Hooks |-> BindPath("db", Hooks[i])] \o
             [i \in DOMAIN Hooks |-> BindPath("storage", Hooks[i])] \o
             <<InitPath("mysql"),
               Rel(RelationsDir("mysql"), "interface", ".yaml"),
               Rel(RelationsDir("mysql"), "provides", ".py")>>

\* fnmatch.fnmatch(relpath, pattern) for patterns that are a literal path or
\* have "*" in place of the directory, the name or the extension.
Fnmatch(rel, pat) ==
    /\ pat.dir \in {"*", rel.dir}
    /\ pat.stem \in {"*", rel.stem}
    /\ pat.ext \in {"*", rel.ext}

\* The directories of the repository the layers are looked up in, the
\* directory the tool runs in, and the generated charm.
TestsDir == <<"tests">>
Cwd == <<>>
OutputDir == <<"out">>
Series == "trusty"
Name == "foo"
LayerDir(n) == TestsDir \o <<Series, n>>
TargetDir == OutputDir \o <<Series, Name>>

\* utils.sign: the sha256 of a file's text.
Sign(content) == <<"sha256", content>>

-----------------------------------------------------------------------------
(* Configuration documents (composer.yaml) and the loading of a layer.  A  *)
(* parsed composer.yaml is a function from its keys to their values:       *)
(* "includes" a list of references or a scalar, "ignore" and "ignores"     *)
(* sequences of patterns,                                                  *)
(* "metadata" and "config" mappings with a "deletes" sequence of dotted    *)
(* paths (each a sequence of parts), "is" a reference.                     *)

\* The value of "includes": a list of references, or one reference given as
\* a scalar.  refs is the list fetch_dep walks, the scalar promoted to a
\* singleton.
List(refs) == [scalar |-> FALSE, refs |-> refs]
Scalar(ref) == [scalar |-> TRUE, refs |-> <<ref>>]
NoIncludes == List(<<>>)

\* The characters of a string, as far as a reference is taken apart here:
\* its segments, one by one.
Chars(ref) == [i \in DOMAIN ref |-> <<ref[i]>>]

\* `for i in inc`: the elements of a list, the characters of a string.
Iterate(inc) == IF inc.scalar THEN Chars(inc.refs[1]) ELSE inc.refs

\* Whether a directory exists, and whether it holds a file.
Exists(F, d) == d \in DOMAIN F
HasFile(F, d, rel) == Exists(F, d) /\ rel \in DOMAIN F[d]

\* ComposerConfig.configure on Layer.config_file: the parsed document, empty
\* when the layer has no composer.yaml.
LoadConfig(F, d) ==
    IF HasFile(F, d, ComposerPath) THEN F[d][ComposerPath] ELSE EmptyMap

\* ComposerConfig.configured: the document has at least one key.
Configured(config) == DOMAIN config # {}

\* ComposerConfig._tactics after configure: the classes the document names
\* under `tactics`, in its order.
CustomTactics(config) == Get(config, "tactics", <<>>)

\* RepoFetcher.can_fetch: the first directory of the search path (the working
\* directory, then COMPOSER_PATH) under which the reference exists.
SearchPath == <<Cwd, TestsDir>>

Resolve(F, url) ==
    LET hits == {i \in 1..Len(SearchPath) : Exists(F, SearchPath[i] \o url)}
    IN  IF hits = {} THEN None
        ELSE Some(SearchPath[CHOOSE i \in hits : \A j \in hits : i <= j] \o url)

\* The reference of the interface mysql and the directory it is found in.
IfaceRef == <<"interface:mysql">>
InterfaceDir == TestsDir \o <<"interfaces", "mysql">>

\* base.startswith("interface:"): an interface reference is one segment that
\* carries the prefix.
InterfaceRefs == {IfaceRef}
IsInterfaceRef(url) == url \in InterfaceRefs

\* InterfaceFetcher.can_fetch: the reference without its prefix, looked up
\* under interfaces/, the working directory and INTERFACE_PATH.
InterfaceSearchPath == << <<"interfaces">>, Cwd, TestsDir \o <<"interfaces">> >>
Strip(url) == IF url = IfaceRef THEN <<"mysql">> ELSE url

\* Interface(url, deps).fetch(): the interface object; err names the
\* exception when the directory cannot be located (OSError) or the
\* interface.yaml gives no name (KeyError).
InterfaceFetch(F, url) ==
    LET hits == {i \in 1..Len(InterfaceSearchPath) :
                    Exists(F, InterfaceSearchPath[i] \o Strip(url))}
        d == InterfaceSearchPath[CHOOSE i \in hits : \A j \in hits : i <= j]
                 \o Strip(url)
        config == IF HasFile(F, d, InterfaceYamlPath)
                  THEN F[d][InterfaceYamlPath] ELSE EmptyMap
    IN  IF hits = {} THEN [err |-> "OSError", iface |-> None]
        ELSE IF "name" \notin DOMAIN config THEN [err |-> "KeyError", iface |-> None]
        ELSE [err |-> "",
              iface |-> Some([url |-> url, name |-> config["name"], directory |-> d])]

\* Layer(url, deps).fetch() and the first use of its config: the layer
\* object, or None when the directory cannot be located or, for a config
\* that names tactics, utils.load_class does not find the module (OSError).
LayerFetch(F, url) ==
    LET d == Resolve(F, url)
    IN  IF d = None THEN None
        ELSE IF /\ CustomTactics(LoadConfig(F, d[1])) # <<>>
                   /\ ~HasFile(F, d[1], TacticsPath) THEN None
        ELSE Some([url |-> url, directory |-> d[1], config |-> LoadConfig(F, d[1])])

RECURSIVE FetchDep(_, _, _, _)
RECURSIVE FetchBases(_, _, _, _)

\* Composer.fetch_dep: the includes of `layer` are fetched depth first and
\* appended to results after their own includes.  results.err names the
\* exception that ended it: an include that cannot be located, or a recursion
\* deeper than the interpreter allows.
FetchDep(F, layer, results, depth) ==
    IF depth > RecursionLimit
    THEN [results EXCEPT !.err = "RuntimeError"]
    ELSE LET baselayers == Get(layer.config, "includes", NoIncludes)
         IN  IF baselayers.refs = <<>> THEN results
             ELSE FetchBases(F, baselayers.refs, results, depth)

\* The loop `for base in baselayers` of fetch_dep.
FetchBases(F, bases, results, depth) ==
    IF bases = <<>> \/ results.err # "" THEN results
    ELSE LET base == Head(bases)
         IN  IF IsInterfaceRef(base)
             THEN LET iface == InterfaceFetch(F, base)
                  IN  IF iface.err # "" THEN [results EXCEPT !.err = iface.err]
                      ELSE FetchBases(F, Tail(bases),
                              [results EXCEPT !.interfaces = Append(@, iface.iface[1])],
                              depth)
             ELSE LET base_layer == LayerFetch(F, base)
                  IN  IF base_layer = None
                      THEN [results EXCEPT !.err = "OSError"]
                      ELSE LET r == FetchDep(F, base_layer[1], results, depth + 1)
                           IN  IF r.err # "" THEN r
                               ELSE FetchBases(F, Tail(bases),
                                       [r EXCEPT !.layers = Append(@, base_layer[1])],
                                       depth)

\* fetch_deps with the originating layer put first.
FetchDeps_Mutant(F, layer) ==
    LET r == FetchDep(F, layer, [layers |-> <<>>, interfaces |-> <<>>, err |-> ""], 1)
    IN  IF r.err # "" THEN r ELSE [r EXCEPT !.layers = <<layer>> \o @]

\* Composer.fetch_deps: the bottom-up list of layers, the originating layer
\* last.
FetchDeps(F, layer) ==
    LET r == FetchDep(F, layer, [layers |-> <<>>, interfaces |-> <<>>, err |-> ""], 1)
    IN  IF r.err # "" THEN r ELSE [r EXCEPT !.layers = Append(@, layer)]

\* Composer.fetch without the test that the top layer is configured.
FetchTop_Mutant(F, url) ==
    LET layer == LayerFetch(F, url)
    IN  IF layer = None
        THEN [layers |-> <<>>, interfaces |-> <<>>, err |-> "OSError"]
        ELSE FetchDeps(F, layer[1])

\* Composer.fetch: the top layer must be located and configured.
FetchTop(F, url) ==
    LET layer == LayerFetch(F, url)
    IN  IF layer = None
        THEN [layers |-> <<>>, interfaces |-> <<>>, err |-> "OSError"]
        ELSE IF ~Configured(layer[1].config)
        THEN [layers |-> <<>>, interfaces |-> <<>>, err |-> "ValueError"]
        ELSE FetchDeps(F, layer[1])

-----------------------------------------------------------------------------
(* utils.delta_signatures: the manifest of the target against its files.   *)
(* A manifest is a function from relative paths to <<origin, kind, digest>>.*)

ComposerOrigin == <<"composer">>
Unchecked == <<"unchecked">>

\* The files of the target that are not in the baseline.
DeltaAdded(F, T) == {p \in DOMAIN F[T] : p \notin DOMAIN F[T][ManifestPath]}

\* delta_signatures without the test of the baseline origin.
DeltaChanged_Mutant(F, T) ==
    LET baseline == F[T][ManifestPath]
    IN  {p \in DOMAIN F[T] : /\ p \in DOMAIN baseline
                             /\ baseline[p][3] # Sign(F[T][p])}

\* The files in both whose digest differs, but for those the composer owns.
DeltaChanged(F, T) ==
    LET baseline == F[T][ManifestPath]
    IN  {p \in DOMAIN F[T] : /\ p \in DOMAIN baseline
                             /\ baseline[p][1] # ComposerOrigin
                             /\ baseline[p][3] # Sign(F[T][p])}

\* The entries of the baseline with no file.
DeltaDeleted(F, T) == {p \in DOMAIN F[T][ManifestPath] : p \notin DOMAIN F[T]}

\* `if a or c or d` of Composer.validate.
DeltaFound(F, T) ==
    DeltaAdded(F, T) # {} \/ DeltaChanged(F, T) # {} \/ DeltaDeleted(F, T) # {}

\* Composer.validate: the exception it raises, "" when it returns.
ValidateForce(f) == f = FALSE

Validate(F, T, f) ==
    IF ~HasFile(F, T, ManifestPath) THEN ""
    ELSE IF ~DeltaFound(F, T) THEN ""
    ELSE IF ValidateForce(f) THEN "" ELSE "ValueError"

-----------------------------------------------------------------------------
(* Tactics.  A tactic is a record: its class, the relative path of its     *)
(* entity, the directory of the layer it comes from (current), the config  *)
(* of the layer above (None for the top layer), the data a SerializedTactic*)
(* accumulates and the raw data ComposerYAML.read loads.                   *)

\* The registry with HookTactic and ActionTactic ahead of InstallerTactic.
DEFAULT_TACTICS_Mutant == <<"ManifestTactic", "HookTactic", "ActionTactic",
                            "InstallerTactic", "MetadataYAML", "ConfigYAML",
                            "ComposerYAML", "CopyTactic">>

\* tactics.DEFAULT_TACTICS, in order.
DEFAULT_TACTICS == <<"ManifestTactic", "InstallerTactic", "MetadataYAML",
                     "ConfigYAML", "ComposerYAML", "HookTactic",
                     "ActionTactic", "CopyTactic">>

\* The trigger classmethod of each class: those of the registry, the class
\* ReadmeTactic a layer's module defines for README.md, and the base class
\* Tactic, which accepts nothing.
Trigger(cls, rel) ==
    CASE cls = "ManifestTactic"  -> rel = ManifestPath
      [] cls = "InstallerTactic" -> rel.ext = ".pypi"
      [] cls = "MetadataYAML"    -> rel = MetadataPath
      [] cls = "ConfigYAML"      -> rel = ConfigPath
      [] cls = "ComposerYAML"    -> rel = ComposerPath
      [] cls = "HookTactic"      -> rel.dir = "hooks"
      [] cls = "ActionTactic"    -> rel.dir = "actions"
      [] cls = "CopyTactic"      -> TRUE
      [] cls = "ReadmeTactic"    -> rel = ReadmePath
      [] cls = "Tactic"          -> FALSE

\* The subclasses of SerializedTactic, their kind, section and prefix.
Serialized == {"MetadataYAML", "ConfigYAML", "ComposerYAML"}
Kind(cls) == IF cls \in Serialized THEN "dynamic" ELSE "static"
Section(cls) == IF cls = "ConfigYAML" THEN "config" ELSE "metadata"
Prefix(cls) == IF cls = "ConfigYAML" THEN Some("options") ELSE None

\* Tactic.repo_path: the last two segments of the layer's directory.
RepoPath(d) == LastTwo(d)

NewTactic(cls, rel, current, config) ==
    [cls |-> cls, entity |-> rel, current |-> current, config |-> config,
     data |-> None, raw |-> None]

\* The ignore handling of ComposerConfig.tactic: whether a pattern of the
\* next layer's config matches the entry.
Ignored(rel, next_config) ==
    /\ next_config # None
    /\ Configured(next_config[1])
    /\ \E i \in DOMAIN Get(next_config[1], "ignore", <<>>) :
           Fnmatch(rel, next_config[1]["ignore"][i])

\* ComposerConfig.tactics: the classes of the config itself, then the
\* registry.
Tactics(config) == CustomTactics(config) \o DEFAULT_TACTICS

\* ComposerConfig.tactic, called on the config of the layer `current`: None
\* for an entry the next layer's config ignores, else a tactic of the first
\* class whose trigger accepts the path.
ConfigTactic(rel, current, next_config) ==
    IF Ignored(rel, next_config) THEN None
    ELSE LET tactics == Tactics(current.config)
             hits == {i \in DOMAIN tactics : Trigger(tactics[i], rel)}
         IN  IF hits = {} THEN None
             ELSE Some(NewTactic(
                     tactics[CHOOSE i \in hits : \A j \in hits : i <= j],
                     rel, current.directory, next_config))

\* Writing a file of the target (dump, write_bytes, copy2).
WriteTarget(F, T, rel, content) == [F EXCEPT ![T] = With(@, rel, content)]

\* SerializedTactic.__call__: load the entity, merge it into the data of the
\* layers below, apply the deletes of the config, keep and dump the result.
SerializedCall(F, T, t) ==
    LET loaded == F[t.current][t.entity]
        merging == t.data # None /\ DOMAIN t.data[1] # {}
        merged == IF merging THEN Deepmerge(t.data[1], loaded) ELSE loaded
        section == IF t.config # None /\ Configured(t.config[1])
                   THEN Get(t.config[1], Section(t.cls), EmptyMap)
                   ELSE EmptyMap
        dels == Get(section, "deletes", <<>>)
        prefix == Prefix(t.cls)
        \* namespace = data[self.prefix] needs the key; the deletes need the
        \* namespace to be a mapping (both exceptions are given as KeyError)
        hasNamespace == prefix = None \/
                        (/\ prefix[1] \in DOMAIN merged
                         /\ dels # <<>> => IsDict(merged[prefix[1]]))
        namespace == IF prefix = None THEN merged ELSE merged[prefix[1]].m
        deleted == DeleteAll(dels, namespace)
        data == IF prefix = None THEN deleted.obj
                ELSE IF dels = <<>> THEN merged
                ELSE With(merged, prefix[1], Map(deleted.obj))
    IN  IF merging /\ ~DeepmergeOk(t.data[1], loaded)
        THEN [F |-> F, t |-> t, err |-> "AttributeError"]
        ELSE IF DOMAIN section = {}
        THEN [F |-> WriteTarget(F, T, t.entity, merged),
              t |-> [t EXCEPT !.data = Some(merged)], err |-> ""]
        ELSE IF ~hasNamespace \/ ~deleted.ok
        THEN [F |-> F, t |-> t, err |-> "KeyError"]
        ELSE [F |-> WriteTarget(F, T, t.entity, data),
              t |-> [t EXCEPT !.data = Some(data)], err |-> ""]

\* has a ":" in it: the test ComposerYAML makes on an include.
HasColon(url) == IsInterfaceRef(url)

\* ComposerYAML.__call__: nothing without raw data; else set `is` when the
\* document has none, normalise the includes, dump.
ComposerCall(F, T, t) ==
    IF t.raw = None THEN [F |-> F, t |-> t, err |-> ""]
    ELSE LET raw == t.raw[1]
             d1 == IF "is" \in DOMAIN raw THEN raw
                   ELSE With(raw, "is", RepoPath(t.current))
             inc == Iterate(Get(d1, "includes", NoIncludes))
             norm == [i \in DOMAIN inc |->
                         IF HasColon(inc[i]) THEN inc[i] ELSE LastTwo(inc[i])]
             data == IF norm # <<>> THEN With(d1, "includes", List(norm)) ELSE d1
         IN  [F |-> WriteTarget(F, T, t.entity, data),
              t |-> [t EXCEPT !.raw = Some(data)], err |-> ""]

\* The config of the target layer: Composer.fetch builds the layer object of
\* the output by hand and gives it no config file.
TargetConfig == EmptyMap

\* utils.ignore_matcher(ignores)(relpath): TRUE when no pattern matches.
IgnoreMatcher(ignores, rel) == \A i \in DOMAIN ignores : ~Fnmatch(rel, ignores[i])

\* CopyTactic.__call__ (also HookTactic and ActionTactic) on a file: the
\* attribute `ignores` of the target's config is read first.
CopyCall(F, T, t) ==
    IF "ignores" \notin DOMAIN TargetConfig
    THEN [F |-> F, t |-> t, err |-> "KeyError"]
    ELSE IF ~IgnoreMatcher(TargetConfig["ignores"], t.entity)
    THEN [F |-> F, t |-> t, err |-> ""]
    ELSE IF t.current = T
    THEN [F |-> F, t |-> t, err |-> ""]
    ELSE [F |-> WriteTarget(F, T, t.entity, F[t.current][t.entity]),
          t |-> t, err |-> ""]

\* The __call__ of the class ReadmeTactic: the text the test expects is
\* written to the target file.
ReadmeCall(F, T, t) ==
    [F |-> WriteTarget(F, T, t.entity, "dynamic tactics"), t |-> t, err |-> ""]

\* InstallerTactic.__call__: pip installs the package the entity names into
\* the directory of the target file, or fails.
InstallerCall(F, T, t, pipOk) ==
    IF pipOk
    THEN [F |-> WriteTarget(F, T, PkgPath, F[t.current][t.entity]),
          t |-> t, err |-> ""]
    ELSE [F |-> F, t |-> t, err |-> "SubprocessError"]

\* The tactics plan_interfaces appends: InterfaceCopy and InterfaceBind.  They
\* are built from an interface, the name and kind of a relation, and the
\* config of the top layer.
InterfaceClasses == {"InterfaceCopy", "InterfaceBind"}

\* DEFAULT_BINDING for a relation, written with mode 0755.
Binding(relation_name) == [text |-> relation_name, mode |-> "0755"]

\* entity stands for the target property: hooks/relations/<interface name>.
InterfaceTactic(cls, iface, relation_name, kind, config) ==
    [cls |-> cls, entity |-> Rel(RelationsDir(iface.name), "", ""),
     current |-> iface.directory, config |-> Some(config),
     data |-> None, raw |-> None,
     iface |-> iface, relation_name |-> relation_name, kind |-> kind]

\* InterfaceCopy.lint (InterfaceBind inherits it): the first .py file of the
\* interface is compared by utils.delta_python_dump, a function utils does
\* not have.  The path it tests, the target directory joined with the
\* file's path relative to it, is the file itself.
InterfaceLint(F, T, t) ==
    IF \E q \in DOMAIN F[t.iface.directory] : q.ext = ".py"
    THEN "AttributeError" ELSE ""

\* tactic.lint()
TacticLint(F, T, t) ==
    IF t.cls \in InterfaceClasses THEN InterfaceLint(F, T, t) ELSE ""

\* InterfaceCopy.__call__: nothing when hooks/relations/<name> exists; else
\* the files of the interface the config's `ignores` let through are copied
\* there, and an __init__.py is made.
InterfaceCopyCall(F, T, t) ==
    LET dir == RelationsDir(t.iface.name)
        source == F[t.iface.directory]
        config == t.config[1]
        files == {q \in DOMAIN source : IgnoreMatcher(config["ignores"], q)}
        copied == [p \in {Rel(dir, q.stem, q.ext) : q \in files} |->
                      source[Rel("", p.stem, p.ext)]]
        init == IF InitPath(t.iface.name) \in DOMAIN copied THEN EmptyMap
                ELSE (InitPath(t.iface.name) :> "")
    IN  IF \E p \in DOMAIN F[T] : p.dir = dir
        THEN [F |-> F, t |-> t, err |-> ""]
        ELSE IF "ignores" \notin DOMAIN config
        THEN [F |-> F, t |-> t, err |-> "KeyError"]
        ELSE IF files = {}
        THEN [F |-> F, t |-> t, err |-> "IOError"]
        ELSE [F |-> [F EXCEPT ![T] = init @@ copied @@ @], t |-> t, err |-> ""]

\* InterfaceBind.__call__: each of the four hooks that does not exist is
\* written and made executable.
InterfaceBindCall(F, T, t) ==
    LET new == [p \in BindPaths(t.relation_name) \ DOMAIN F[T] |->
                   Binding(t.relation_name)]
    IN  [F |-> [F EXCEPT ![T] = new @@ @], t |-> t, err |-> ""]

\* tactic(): the call of a tactic of any class.
TacticCall(F, T, t, pipOk) ==
    CASE t.cls \in {"MetadataYAML", "ConfigYAML"} -> SerializedCall(F, T, t)
      [] t.cls = "ComposerYAML" -> ComposerCall(F, T, t)
      [] t.cls = "ManifestTactic" -> [F |-> F, t |-> t, err |-> ""]
      [] t.cls = "InstallerTactic" -> InstallerCall(F, T, t, pipOk)
      [] t.cls = "InterfaceCopy" -> InterfaceCopyCall(F, T, t)
      [] t.cls = "InterfaceBind" -> InterfaceBindCall(F, T, t)
      [] t.cls = "ReadmeTactic" -> ReadmeCall(F, T, t)
      [] t.cls = "Tactic" -> [F |-> F, t |-> t, err |-> "NotImplementedError"]
      [] OTHER -> CopyCall(F, T, t)

\* tactic.read(): ComposerYAML loads its entity, the others do nothing.
TacticRead(F, t) ==
    IF t.cls = "ComposerYAML"
    THEN [t EXCEPT !.raw = Some(F[t.current][t.entity])]
    ELSE t

\* InterfaceCopy.sign: an entry for every file under hooks/relations/<name>.
InterfaceCopySign(F, T, t) ==
    [p \in {q \in DOMAIN F[T] : q.dir = RelationsDir(t.iface.name)} |->
        <<t.iface.url, "static", Sign(F[T][p])>>]

\* InterfaceBind.sign: an entry for each of the four hooks; utils.sign gives
\* None for what is not a file.
InterfaceBindSign(F, T, t) ==
    [p \in BindPaths(t.relation_name) |->
        <<t.iface.url, "dynamic",
          IF HasFile(F, T, p) THEN Sign(F[T][p]) ELSE None>>]

\* Tactic.sign: the entry of the target file when it exists.
TacticSign(F, T, t) ==
    CASE t.cls = "InterfaceCopy" -> InterfaceCopySign(F, T, t)
      [] t.cls = "InterfaceBind" -> InterfaceBindSign(F, T, t)
      [] OTHER ->
           IF HasFile(F, T, t.entity)
           THEN (t.entity :> <<RepoPath(t.current), Kind(t.cls), Sign(F[T][t.entity])>>)
           ELSE EmptyMap

-----------------------------------------------------------------------------
(* Planning.  output_files is an OrderedDict: a sequence of pairs          *)
(* <<relpath, tactic or None>> in the order of first insertion.            *)

\* output_files.get(rel)
OdGet(od, rel) ==
    LET hits == {i \in DOMAIN od : od[i][1] = rel}
    IN  IF hits = {} THEN None ELSE od[CHOOSE i \in hits : TRUE][2]

\* An assignment that moves a key already there to the end.
OdSet_Mutant(od, rel, value) ==
    Append(SelectSeq(od, LAMBDA kv : kv[1] # rel), <<rel, value>>)

\* output_files[rel] = value: a key already there keeps its place.
OdSet(od, rel, value) ==
    IF \E i \in DOMAIN od : od[i][1] = rel
    THEN [i \in DOMAIN od |-> IF od[i][1] = rel THEN <<rel, value>> ELSE od[i]]
    ELSE Append(od, <<rel, value>>)

\* [t for t in output_files.values() if t]
RECURSIVE OdValues(_)
OdValues(od) ==
    IF od = <<>> THEN <<>>
    ELSE IF Head(od)[2] = None THEN OdValues(Tail(od))
    ELSE <<Head(od)[2][1]>> \o OdValues(Tail(od))

\* The tactic current.combine(existing) returns, with the file system after
\* it: a SerializedTactic invokes the previous tactic and takes over its
\* data, every other class returns itself.
Combine(F, T, current, existing) ==
    IF current.cls \in Serialized
    THEN LET r == TacticCall(F, T, existing, TRUE)
         IN  [F |-> r.F,
              t |-> IF r.err = "" /\ r.t.data # None
                    THEN [current EXCEPT !.data = r.t.data] ELSE current,
              err |-> r.err]
    ELSE [F |-> F, t |-> current, err |-> ""]

\* Composer.build_tactics on one entry.  st is [F, of, err]: the file system,
\* output_files, and the exception raised so far.
BuildTactics(st, rel, current, config, T) ==
    LET cur == ConfigTactic(rel, current, config)
        existing == OdGet(st.of, rel)
    IN  IF existing = None
        THEN [st EXCEPT !.of = OdSet(st.of, rel, cur)]
        ELSE IF cur = None
        THEN [st EXCEPT !.err = "AttributeError"]
        ELSE LET r == Combine(st.F, T, cur[1], existing[1])
             IN  IF r.err # "" THEN [st EXCEPT !.F = r.F, !.err = r.err]
                 ELSE [F |-> r.F, of |-> OdSet(st.of, rel, Some(r.t)), err |-> ""]

\* The entries a walk of a directory yields, in order.
Walk(F, d) == SelectSeq(WalkOrder, LAMBDA rel : rel \in DOMAIN F[d])

RECURSIVE WalkLayer(_, _, _, _, _)
\* The walk of one layer by plan_layers: build_tactics on every entry, until
\* one raises.
WalkLayer(st, entries, current, config, T) ==
    IF entries = <<>> \/ st.err # "" THEN st
    ELSE WalkLayer(BuildTactics(st, Head(entries), current, config, T),
                   Tail(entries), current, config, T)

\* The layer's own config handed to its tactics.
NextConfig_Mutant(chain, i) == Some(chain[i].config)

\* The config plan_layers hands to the tactics of the layer at index i: that
\* of the next layer, None for the last layer.
NextConfig(chain, i) ==
    IF i + 1 <= Len(chain) THEN Some(chain[i + 1].config) ELSE None

-----------------------------------------------------------------------------
(* The layers of the repository the tool is run on. *)

\* The references of the layers a and b.
RefA == <<Series, "a">>
RefB == <<Series, "b">>
\* The layer a, named by its path from the working directory.
RefALong == LayerDir("a")
TopCharm == LayerDir("top")

\* The metadata.yaml and config.yaml a layer may hold.
MetaOf(n) ==
    CASE n = "a" -> ("summary" :> Str("a")) @@
                    ("provides" :> Map("db" :> Map("interface" :> Str("mysql"))))
      [] n = "b" -> ("summary" :> Str("b")) @@ ("maintainer" :> Str("b"))
      [] OTHER   -> ("summary" :> Str("top")) @@
                    ("provides" :> Map("storage" :> Map("interface" :> Str("block"))))

ConfOf(n) ==
    CASE n = "a" -> ("options" :> Map(("vip" :> Str("a")) @@ ("bind-address" :> Str("a"))))
      [] OTHER   -> ("options" :> Map(("port" :> Str(n)) @@ ("vip" :> Str(n))))

\* A mapping with the key only when the value is given.
Opt(k, v) == IF v = None THEN EmptyMap ELSE (k :> v[1])
\* A file only when it is there.
File(rel, there, content) == IF there THEN (rel :> content) ELSE EmptyMap

\* What the includes, ignore and deletes of a composer.yaml are drawn from
\* (None: the document has no such key).
TopIncludes == {List(<<RefA>>), List(<<RefB>>), List(<<RefB, RefA>>),
                List(<<RefA, RefB>>), List(<<RefALong>>), Scalar(RefA)}
BaseIncludes == {None, Some(List(<<RefA>>)), Some(List(<<RefB>>))}
Ignores == {None, Some(<<ReadmePath>>), Some(<<MetadataPath>>)}
MetaDeletes == {None, Some(<< <<"summary">> >>), Some(<< <<"provides", "db">> >>)}
ConfDeletes == {None, Some(<< <<"vip">> >>)}

Deletes(dels) == IF dels = None THEN None ELSE Some("deletes" :> dels[1])

ComposerDoc(includes, ignore, metaDels, confDels) ==
    Opt("includes", includes) @@ Opt("ignore", ignore) @@
    Opt("metadata", Deletes(metaDels)) @@ Opt("config", Deletes(confDels))

-----------------------------------------------------------------------------
(* The initial state: the layers a, b and top under tests/trusty, the      *)
(* target out/trusty/foo not yet made.  The plain repository is: top       *)
(* includes a, b includes a, a and top hold a metadata.yaml.  An initial   *)
(* state departs from it in at most MaxFeatures choices.                   *)

\* The files of a layer; doc is its composer.yaml, empty for none.
LayerFiles(n, doc, meta, conf, readme) ==
    File(ComposerPath, DOMAIN doc # {}, doc) @@
    File(MetadataPath, meta, MetaOf(n)) @@
    File(ConfigPath, conf, ConfOf(n)) @@
    File(ReadmePath, readme, n)

\* The includes of the top layer: with the interface after the layers when
\* it is included.
Includes(refs, interface) ==
    IF interface /\ ~refs.scalar THEN List(refs.refs \o <<IfaceRef>>) ELSE refs

\* The composer.yaml of the top layer: the document, an empty file, or no
\* file.
TopDocs == {"full", "empty", "missing"}
TopDoc(c) ==
    IF c.te # "full" THEN EmptyMap
    ELSE ComposerDoc(Some(Includes(c.ti, c.ii)), c.ig, c.md, c.cd) @@
         File("ignores", c.igs, <<>>) @@ File("tactics", c.tt, <<"ReadmeTactic">>)

\* The files of the interface mysql.
InterfaceFiles(py) ==
    (InterfaceYamlPath :> ("name" :> "mysql")) @@ File(ProvidesPath, py, "provides")

\* c is the record of the choices.
Repo(c) ==
    (LayerDir("a") :> (LayerFiles("a", ComposerDoc(c.ai, None, None, None) @@
                                       File("tactics", c.at, <<"ReadmeTactic">>),
                                  c.am, c.ac, c.rd) @@
                       File(PycPath, c.pyc, "compiled") @@
                       File(TacticsPath, c.at, "class ReadmeTactic"))) @@
    (LayerDir("b") :> LayerFiles("b", ComposerDoc(c.bi, None, c.bmd, None),
                                 c.bm, FALSE, FALSE)) @@
    (LayerDir("top") :> (LayerFiles("top", TopDoc(c), c.tm, c.tc, c.rd) @@
                         File(ComposerPath, c.te = "empty", EmptyMap) @@
                         File(PypiPath, c.pp, "pkg") @@
                         File(TacticsPath, c.tt, "class ReadmeTactic"))) @@
    (InterfaceDir :> InterfaceFiles(c.ipy))

Plain ==
    [ti |-> List(<<RefA>>), ai |-> None, bi |-> Some(List(<<RefA>>)), ig |-> None,
     md |-> None, bmd |-> None, cd |-> None,
     am |-> TRUE, bm |-> FALSE, tm |-> TRUE, ac |-> FALSE, tc |-> FALSE,
     rd |-> FALSE, pp |-> FALSE,
     ii |-> FALSE, ipy |-> TRUE, igs |-> FALSE, pyc |-> FALSE, te |-> "full",
     tt |-> FALSE, at |-> FALSE]

\* The values of the choice k: those of S when k is one of the choices K
\* that may depart from the plain repository.
Alt(k, K, S) == IF k \in K THEN S ELSE {Plain[k]}

\* The records of choices that depart from the plain repository in the
\* choices K only.
Within(K) ==
    [ti : Alt("ti", K, TopIncludes), ai : Alt("ai", K, BaseIncludes),
     bi : Alt("bi", K, BaseIncludes), ig : Alt("ig", K, Ignores),
     md : Alt("md", K, MetaDeletes), bmd : Alt("bmd", K, MetaDeletes),
     cd : Alt("cd", K, ConfDeletes),
     am : Alt("am", K, BOOLEAN), bm : Alt("bm", K, BOOLEAN),
     tm : Alt("tm", K, BOOLEAN), ac : Alt("ac", K, BOOLEAN),
     tc : Alt("tc", K, BOOLEAN), rd : Alt("rd", K, BOOLEAN),
     pp : Alt("pp", K, BOOLEAN), ii : Alt("ii", K, BOOLEAN),
     ipy : Alt("ipy", K, BOOLEAN), igs : Alt("igs", K, BOOLEAN),
     pyc : Alt("pyc", K, BOOLEAN), te : Alt("te", K, TopDocs),
     tt : Alt("tt", K, BOOLEAN), at : Alt("at", K, BOOLEAN)]

Init ==
    /\ \E pick \in [1..MaxFeatures -> DOMAIN Plain] :
          \E c \in Within({pick[i] : i \in DOMAIN pick}) : fs = Repo(c)
    /\ pc = "idle"
    /\ err = ""
    /\ charm = TopCharm
    /\ force = FALSE
    /\ layers = [layers |-> <<>>, interfaces |-> <<>>]
    /\ output_files = <<>>
    /\ plan = <<>>
    /\ idx = 0
    /\ signatures = EmptyMap
    /\ runs = 0
    /\ last = None
    /\ edited = FALSE
    /\ call = None
    /\ result = None

-----------------------------------------------------------------------------
(* Composer.__call__: find_or_create_repo, validate, generate.             *)

Fail(e) == pc' = "failed" /\ err' = e

\* The tool is started: the arguments are set and find_or_create_repo makes
\* the target directory (the output directory is not the charm: create_repo).
FindOrCreateRepo ==
    /\ UNCHANGED <<call, result>>
    /\ pc \in {"idle", "done", "failed"}
    /\ runs < MaxRuns
    /\ \E c \in {TopCharm, TargetDir},
          f \in (IF HasFile(fs, TargetDir, ManifestPath) THEN BOOLEAN ELSE {FALSE}) :
          /\ charm' = c
          /\ force' = f
    /\ fs' = IF Exists(fs, TargetDir) THEN fs ELSE (TargetDir :> EmptyMap) @@ fs
    /\ runs' = runs + 1
    /\ pc' = "validate"
    /\ err' = ""
    /\ layers' = [layers |-> <<>>, interfaces |-> <<>>]
    /\ output_files' = <<>>
    /\ plan' = <<>>
    /\ idx' = 0
    /\ signatures' = EmptyMap
    /\ UNCHANGED <<last, edited>>

\* Composer.validate
DoValidate ==
    /\ UNCHANGED <<call, result>>
    /\ pc = "validate"
    /\ LET e == Validate(fs, TargetDir, force)
       IN  IF e = "" THEN pc' = "fetch" /\ err' = "" ELSE Fail(e)
    /\ UNCHANGED <<fs, charm, force, layers, output_files, plan, idx,
                   signatures, runs, last, edited>>

\* Composer.fetch
Fetch ==
    /\ UNCHANGED <<call, result>>
    /\ pc = "fetch"
    /\ LET r == FetchTop(fs, charm)
       IN  IF r.err = ""
           THEN /\ layers' = [layers |-> r.layers, interfaces |-> r.interfaces]
                /\ pc' = "plan_layers"
                /\ idx' = 1
                /\ err' = ""
           ELSE /\ Fail(r.err)
                /\ UNCHANGED <<layers, idx>>
    /\ UNCHANGED <<fs, charm, force, output_files, plan, signatures, runs,
                   last, edited>>

\* One turn of the loop of Composer.plan_layers: the walk of the layer at
\* index idx; after the last layer the plan is what output_files holds.
PlanLayer ==
    /\ UNCHANGED <<call, result>>
    /\ pc = "plan_layers"
    /\ LET chain == layers.layers
           layer == chain[idx]
           st == WalkLayer([F |-> fs, of |-> output_files, err |-> ""],
                           Walk(fs, layer.directory), layer,
                           NextConfig(chain, idx), TargetDir)
       IN  /\ fs' = st.F
           /\ output_files' = st.of
           /\ IF st.err # ""
              THEN Fail(st.err) /\ UNCHANGED <<idx, plan>>
              ELSE IF idx < Len(chain)
              THEN idx' = idx + 1 /\ UNCHANGED <<pc, err, plan>>
              ELSE /\ plan' = OdValues(st.of)
                   /\ pc' = "plan_interfaces"
                   /\ UNCHANGED <<idx, err>>
    /\ UNCHANGED <<charm, force, layers, signatures, runs, last, edited>>

\* The kinds of relation plan_interfaces goes through, in its order.
KindOrder == <<"provides", "requires", "peer">>

\* The loops of plan_interfaces over the relations of the merged metadata:
\* whether every relation under provides, requires and peer is a mapping
\* with an "interface" key.
RelationKinds == {KindOrder[i] : i \in DOMAIN KindOrder}

SpecsOk(meta) ==
    \A kind \in RelationKinds :
        kind \in DOMAIN meta =>
            /\ IsDict(meta[kind])
            /\ \A k \in DOMAIN meta[kind].m :
                   /\ IsDict(meta[kind].m[k])
                   /\ "interface" \in DOMAIN meta[kind].m[k].m

\* The order in which the relations of one kind are gone through.
RelationNames == <<"db", "storage">>

\* specs: [kind, relation name, interface name] for every relation.
KindSpecs(meta, kind) ==
    IF kind \notin DOMAIN meta THEN <<>>
    ELSE LET rels == SelectSeq(RelationNames, LAMBDA k : k \in DOMAIN meta[kind].m)
         IN  [i \in DOMAIN rels |->
                 <<kind, rels[i], meta[kind].m[rels[i]].m["interface"].s>>]

RECURSIVE Specs(_, _)
Specs(meta, kinds) ==
    IF kinds = <<>> THEN <<>>
    ELSE KindSpecs(meta, Head(kinds)) \o Specs(meta, Tail(kinds))

\* used_interfaces
UsedInterfaces(specs) == {specs[i][3] : i \in DOMAIN specs}

RECURSIVE SpecTactics(_, _, _)
\* The loop over specs for one interface: a copy and a bind for every spec.
SpecTactics(iface, specs, config) ==
    IF specs = <<>> THEN <<>>
    ELSE << InterfaceTactic("InterfaceCopy", iface, Head(specs)[2], Head(specs)[1], config),
            InterfaceTactic("InterfaceBind", iface, Head(specs)[2], Head(specs)[1], config) >>
         \o SpecTactics(iface, Tail(specs), config)

RECURSIVE InterfaceTactics(_, _, _)
\* The loop over the fetched interfaces: one the metadata does not use is
\* passed over.
InterfaceTactics(ifaces, specs, config) ==
    IF ifaces = <<>> THEN <<>>
    ELSE (IF Head(ifaces).name \in UsedInterfaces(specs)
          THEN SpecTactics(Head(ifaces), specs, config) ELSE <<>>)
         \o InterfaceTactics(Tail(ifaces), specs, config)

\* A plan with the tactic of one path replaced.
Replace(tactics, t) ==
    [i \in DOMAIN tactics |-> IF tactics[i].entity = t.entity THEN t ELSE tactics[i]]

\* The test, with interfaces without metadata let through.
MissingMeta_Mutant(charm_meta, interfaces) == FALSE

\* The test of plan_interfaces that there are interfaces and no tactic for
\* metadata.yaml to bind them.
MissingMeta(charm_meta, interfaces) == charm_meta = None /\ interfaces # <<>>

\* The phases of exec_plan, and where the two loops of it go after the
\* tactic at index i of n in a phase: the next tactic of the phase, then the
\* first tactic of the next phase; after the last phase, the manifest.
PhaseAfter(phase) ==
    CASE phase = "lint" -> "read"
      [] phase = "read" -> "call"
      [] phase = "call" -> "sign"
      [] phase = "sign" -> "manifest"

\* The loops nested the other way round: every phase on one tactic, then
\* the next tactic.
ExecNext_Mutant(phase, i, n) ==
    IF phase # "sign" THEN [pc |-> PhaseAfter(phase), idx |-> i]
    ELSE IF i < n THEN [pc |-> "lint", idx |-> i + 1]
    ELSE [pc |-> "manifest", idx |-> 1]

ExecNext(phase, i, n) ==
    IF i < n THEN [pc |-> phase, idx |-> i + 1]
    ELSE [pc |-> PhaseAfter(phase), idx |-> 1]

\* The start of exec_plan: the loops do nothing over an empty plan.
ExecStart(tactics) == IF tactics = <<>> THEN "manifest" ELSE "lint"

\* Composer.plan_interfaces: the tactic of metadata.yaml is invoked for the
\* merged metadata and the tactics of the interfaces it uses are appended;
\* interfaces without a metadata.yaml are an error.
PlanInterfaces ==
    /\ UNCHANGED <<call, result>>
    /\ pc = "plan_interfaces"
    /\ LET charm_meta == OdGet(output_files, MetadataPath)
       IN  IF charm_meta # None
           THEN LET r == TacticCall(fs, TargetDir, charm_meta[1], TRUE)
                IN  /\ fs' = r.F
                    /\ IF r.err # "" THEN Fail(r.err) /\ UNCHANGED <<plan, output_files, idx>>
                       ELSE IF ~SpecsOk(r.t.data[1])
                       THEN Fail("KeyError") /\ UNCHANGED <<plan, output_files, idx>>
                       ELSE /\ plan' = Replace(plan, r.t) \o
                                    InterfaceTactics(layers.interfaces,
                                        Specs(r.t.data[1], KindOrder),
                                        layers.layers[Len(layers.layers)].config)
                            /\ output_files' = OdSet(output_files, MetadataPath, Some(r.t))
                            /\ pc' = ExecStart(plan')
                            /\ idx' = 1
                            /\ err' = ""
           ELSE /\ IF MissingMeta(charm_meta, layers.interfaces)
                   THEN Fail("ValueError") /\ idx' = idx
                   ELSE pc' = ExecStart(plan) /\ idx' = 1 /\ err' = ""
                /\ UNCHANGED <<fs, plan, output_files>>
    /\ UNCHANGED <<charm, force, layers, signatures, runs, last, edited>>

-----------------------------------------------------------------------------
(* Composer.exec_plan: lint, read, __call__ and sign over the plan, then   *)
(* the manifest.  Each action is one turn of the inner loop.               *)

\* One turn of the lint phase.
ExecLint ==
    /\ UNCHANGED <<call, result>>
    /\ pc = "lint"
    /\ LET e == TacticLint(fs, TargetDir, plan[idx])
       IN  IF e # ""
           THEN Fail(e) /\ idx' = idx
           ELSE /\ pc' = ExecNext(pc, idx, Len(plan)).pc
                /\ idx' = ExecNext(pc, idx, Len(plan)).idx
                /\ err' = err
    /\ UNCHANGED <<fs, charm, force, layers, output_files, plan,
                   signatures, runs, last, edited>>

\* One turn of the read phase.
ExecRead ==
    /\ UNCHANGED <<call, result>>
    /\ pc = "read"
    /\ plan' = [plan EXCEPT ![idx] = TacticRead(fs, plan[idx])]
    /\ pc' = ExecNext(pc, idx, Len(plan)).pc
    /\ idx' = ExecNext(pc, idx, Len(plan)).idx
    /\ UNCHANGED <<fs, err, charm, force, layers, output_files, signatures,
                   runs, last, edited>>

\* One turn of the __call__ phase: the tactic at index idx.
ExecCall ==
    /\ UNCHANGED <<call, result>>
    /\ pc = "call"
    /\ \E pipOk \in (IF plan[idx].cls = "InstallerTactic" THEN BOOLEAN ELSE {TRUE}) :
          LET r == TacticCall(fs, TargetDir, plan[idx], pipOk)
          IN  /\ fs' = r.F
              /\ IF r.err # ""
                 THEN Fail(r.err) /\ UNCHANGED <<plan, idx>>
                 ELSE /\ plan' = [plan EXCEPT ![idx] = r.t]
                      /\ err' = ""
                      /\ pc' = ExecNext(pc, idx, Len(plan)).pc
                      /\ idx' = ExecNext(pc, idx, Len(plan)).idx
    /\ UNCHANGED <<charm, force, layers, output_files, signatures, runs,
                   last, edited>>

RECURSIVE SignAll(_, _, _, _)
\* The whole sign phase: signatures.update(sig) for every tactic in plan
\* order.
SignAll(F, T, tactics, sigs) ==
    IF tactics = <<>> THEN sigs
    ELSE SignAll(F, T, Tail(tactics), TacticSign(F, T, Head(tactics)) @@ sigs)

\* One turn of the sign phase.
ExecSign ==
    /\ UNCHANGED <<call, result>>
    /\ pc = "sign"
    /\ signatures' = SignAll(fs, TargetDir, <<plan[idx]>>, signatures)
    /\ pc' = ExecNext(pc, idx, Len(plan)).pc
    /\ idx' = ExecNext(pc, idx, Len(plan)).idx
    /\ UNCHANGED <<fs, err, charm, force, layers, output_files, plan,
                   runs, last, edited>>

\* The entry of the manifest for itself.
ManifestEntry == <<ComposerOrigin, "dynamic", Unchecked>>

\* The end of exec_plan: the manifest is written.
WriteManifest ==
    /\ UNCHANGED <<call, result>>
    /\ pc = "manifest"
    /\ signatures' = With(signatures, ManifestPath, ManifestEntry)
    /\ fs' = WriteTarget(fs, TargetDir, ManifestPath, signatures')
    /\ pc' = "done"
    /\ last' = Some(fs'[TargetDir])
    /\ edited' = FALSE
    /\ UNCHANGED <<err, charm, force, layers, output_files, plan, idx, runs>>

-----------------------------------------------------------------------------
(* The user, between two runs: one edit of the target by hand.             *)

\* The content of a file after an edit of it.
Edited(rel, content) ==
    IF rel \in {MetadataPath, ConfigPath}
    THEN With(content, "edited", Str("by hand"))
    ELSE IF rel = ComposerPath THEN With(content, "name", "edited")
    ELSE "edited"

EditPaths == {MetadataPath, ReadmePath}

Edit ==
    /\ UNCHANGED <<call, result>>
    /\ pc = "done"
    /\ ~edited
    /\ runs < MaxRuns
    /\ \E rel \in EditPaths :
          \/ /\ rel \in DOMAIN fs[TargetDir]
             /\ fs' = [fs EXCEPT ![TargetDir] = Without(@, rel)]
          \/ /\ rel \in DOMAIN fs[TargetDir]
             /\ fs' = WriteTarget(fs, TargetDir, rel, Edited(rel, fs[TargetDir][rel]))
          \/ /\ rel \notin DOMAIN fs[TargetDir]
             /\ rel = ReadmePath
             /\ fs' = WriteTarget(fs, TargetDir, rel, "edited")
    /\ edited' = TRUE
    /\ UNCHANGED <<pc, err, charm, force, layers, output_files, plan, idx,
                   signatures, runs, last>>

Next ==
    \/ FindOrCreateRepo
    \/ DoValidate
    \/ Fetch
    \/ PlanLayer
    \/ PlanInterfaces
    \/ ExecLint
    \/ ExecRead
    \/ ExecCall
    \/ ExecSign
    \/ WriteManifest
    \/ Edit

Spec == Init /\ [][Next]_vars

\* The runs on the repositories that depart from the plain one in any of
\* the choices about metadata.yaml: which layers the top one includes, which
\* layers hold the file, and the deletes of the top layer and of b.
InitMeta ==
    /\ \E c \in Within({"ti", "am", "bm", "tm", "md", "bmd"}) : fs = Repo(c)
    /\ pc = "idle"
    /\ err = ""
    /\ charm = TopCharm
    /\ force = FALSE
    /\ layers = [layers |-> <<>>, interfaces |-> <<>>]
    /\ output_files = <<>>
    /\ plan = <<>>
    /\ idx = 0
    /\ signatures = EmptyMap
    /\ runs = 0
    /\ last = None
    /\ edited = FALSE
    /\ call = None
    /\ result = None

SpecMeta == InitMeta /\ [][Next]_vars

-----------------------------------------------------------------------------
(* The functions of utils and config called on their own: call holds the   *)
(* name and the arguments, result what the call returned ([ok |-> TRUE, v]) *)
(* or the exception it raised ([ok |-> FALSE, err]).                        *)

\* A YAML list as a node; s stands for its items, "" for the empty list.
Sequence(v) == [tag |-> "seq", s |-> v, m |-> EmptyMap]

\* The documents deepmerge and delete_path are called on: the keys a and b
\* with a scalar, a list, or a mapping of c and d to scalars.
Docs ==
    LET leaves == {Str("x"), Str(""), Sequence("p"), Sequence("q")}
        inner == UNION {[K -> {Str("x"), Str("y")}] : K \in SUBSET {"c", "d"}}
        nodes == leaves \cup {Map(m) : m \in inner}
    IN  UNION {[K -> nodes] : K \in SUBSET {"a", "b"}}

\* path.split('.') of the dotted paths delete_path is called with.
DottedPaths == {<<"a">>, <<"b">>, <<"a", "c">>, <<"b", "d">>, <<"a", "c", "e">>}

\* The entries ComposerConfig.tactic is called on, the lists of classes a
\* layer declares and the configs of the next layer.
Entries == {ManifestPath, MetadataPath, ConfigPath, ComposerPath, ReadmePath,
            HookPath, PypiPath, Rel("hooks", "x", ".pypi"),
            Rel("sub", "metadata", ".yaml"), Rel("actions", "run", ""),
            Rel("hooks", "README", ".md")}
Declared == {<<>>, <<"ReadmeTactic">>, <<"Tactic">>, <<"Tactic", "ReadmeTactic">>,
             <<"ReadmeTactic", "ReadmeTactic">>}
NextConfigs == {None, Some(EmptyMap), Some("ignore" :> <<ReadmePath>>),
                Some("ignore" :> <<Rel("*", "*", ".yaml")>>),
                Some("includes" :> List(<<RefA>>))}

\* What _tactics is set to in tests/test_config.py.
TacticLists == {<<>>, <<"a", "b", "c">>, <<"d", "c">>}

\* c = parent.new_child(); c._tactics = child; c.tactics().  The class
\* ComposerConfig and dict define the names of attrs; any other attribute
\* goes to __getattr__, which is self[key]: the value of the key, which is
\* not callable, or KeyError.
NewChildTactics(config, parent, child) ==
    LET attrs == {"configure", "configured", "validate", "tactics", "tactic",
                  "get", "update", "items", "keys"}
    IN  IF "new_child" \in attrs
        THEN [ok |-> TRUE, v |-> child \o parent \o DEFAULT_TACTICS]
        ELSE IF "new_child" \in DOMAIN config
        THEN [ok |-> FALSE, err |-> "TypeError"]
        ELSE [ok |-> FALSE, err |-> "KeyError"]

InitCalls ==
    /\ fs = Repo(Plain)
    /\ pc = "idle"
    /\ err = ""
    /\ charm = TopCharm
    /\ force = FALSE
    /\ layers = [layers |-> <<>>, interfaces |-> <<>>]
    /\ output_files = <<>>
    /\ plan = <<>>
    /\ idx = 0
    /\ signatures = EmptyMap
    /\ runs = 0
    /\ last = None
    /\ edited = FALSE
    /\ result = None
    /\ \/ \E dest \in Docs, src \in Docs :
             call = Some([fn |-> "deepmerge", dest |-> dest, src |-> src])
       \/ \E parts \in DottedPaths, obj \in Docs :
             call = Some([fn |-> "delete_path", parts |-> parts, obj |-> obj])
       \/ \E rel \in Entries, declared \in Declared, next \in NextConfigs :
             call = Some([fn |-> "tactic", entity |-> rel,
                          current |-> [url |-> RefA, directory |-> LayerDir("a"),
                                       config |-> ("tactics" :> declared)],
                          next_config |-> next])
       \/ \E keys \in {{}, {"a"}, {"a", "b"}}, parent \in TacticLists, child \in TacticLists :
             call = Some([fn |-> "new_child", config |-> [k \in keys |-> 1],
                          parent |-> parent, child |-> child])

\* deepmerge(dest, src)
CallDeepmerge ==
    /\ result = None
    /\ call[1].fn = "deepmerge"
    /\ result' = Some(IF DeepmergeOk(call[1].dest, call[1].src)
                      THEN [ok |-> TRUE, v |-> Deepmerge(call[1].dest, call[1].src)]
                      ELSE [ok |-> FALSE, err |-> "AttributeError"])
    /\ UNCHANGED <<fs, pc, err, charm, force, layers, output_files, plan, idx,
                   signatures, runs, last, edited, call>>

\* delete_path(path, obj): obj after it, as it was when the call raised.
CallDeletePath ==
    /\ result = None
    /\ call[1].fn = "delete_path"
    /\ result' = Some(IF DeletePathOk(call[1].parts, call[1].obj)
                      THEN [ok |-> TRUE, v |-> DeletePath(call[1].parts, call[1].obj)]
                      ELSE [ok |-> FALSE, v |-> call[1].obj])
    /\ UNCHANGED <<fs, pc, err, charm, force, layers, output_files, plan, idx,
                   signatures, runs, last, edited, call>>

\* current.config.tactic(entity, current, target, next_config): the class of
\* the tactic returned, "" for None.
CallTactic ==
    /\ result = None
    /\ call[1].fn = "tactic"
    /\ result' = Some(LET t == ConfigTactic(call[1].entity, call[1].current,
                                            call[1].next_config)
                      IN  [ok |-> TRUE, v |-> IF t = None THEN "" ELSE t[1].cls])
    /\ UNCHANGED <<fs, pc, err, charm, force, layers, output_files, plan, idx,
                   signatures, runs, last, edited, call>>

\* test_tactics of tests/test_config.py.
CallNewChild ==
    /\ result = None
    /\ call[1].fn = "new_child"
    /\ result' = Some(NewChildTactics(call[1].config, call[1].parent, call[1].child))
    /\ UNCHANGED <<fs, pc, err, charm, force, layers, output_files, plan, idx,
                   signatures, runs, last, edited, call>>

NextCalls ==
    \/ CallDeepmerge
    \/ CallDeletePath
    \/ CallTactic
    \/ CallNewChild

SpecCalls == InitCalls /\ [][NextCalls]_vars

-----------------------------------------------------------------------------
(* The include graph, as fetch_dep follows it.                             *)

\* The directories the includes of the layer at d resolve to.
IncludedBy(F, d) ==
    LET inc == Get(LoadConfig(F, d), "includes", NoIncludes).refs
    IN  {Resolve(F, inc[i])[1] :
            i \in {j \in DOMAIN inc : /\ ~IsInterfaceRef(inc[j])
                                      /\ Resolve(F, inc[j]) # None}}

RECURSIVE Below(_, _, _)
\* The directories reached from those of S in at most n more steps.
Below(F, S, n) ==
    IF n = 0 THEN S
    ELSE Below(F, S \cup UNION {IncludedBy(F, d) : d \in S}, n - 1)

\* The layers the layer at d includes, directly or transitively.
Reaches(F, d) == Below(F, IncludedBy(F, d), Cardinality(DOMAIN F))

\* The include graph under d has a layer that reaches itself.
Cyclic(F, d) == \E x \in Reaches(F, d) \cup {d} : x \in Reaches(F, x)

\* The mapping the deletes of a document's class are applied to.
Namespace(cls, doc) ==
    IF Prefix(cls) = None THEN doc
    ELSE IF Prefix(cls)[1] \in DOMAIN doc /\ IsDict(doc[Prefix(cls)[1]])
    THEN doc[Prefix(cls)[1]].m
    ELSE EmptyMap

\* The relative path of the document of a class.
EntityOf(cls) == IF cls = "ConfigYAML" THEN ConfigPath ELSE MetadataPath

\* The deletes a config lists for the document of a class.
DeletesOf(config, cls) ==
    Get(Get(config, Section(cls), EmptyMap), "deletes", <<>>)

-----------------------------------------------------------------------------
(* The properties.                                                         *)

\* C1: when the target holds a manifest and the delta detector reports an
\* added, changed or deleted file, a run with force not set fails in
\* validate, and nothing of the file system is written.
C1_UnforcedDeltaFails ==
    [][(/\ pc = "validate"
        /\ HasFile(fs, TargetDir, ManifestPath)
        /\ DeltaFound(fs, TargetDir)
        /\ force = FALSE)
       => (pc' = "failed" /\ fs' = fs)]_vars

\* C2: when the delta detector reports an added, changed or deleted file and
\* force is set, validate returns and the run goes on to fetch.
C2_ForcedDeltaContinues ==
    [][(/\ pc = "validate"
        /\ HasFile(fs, TargetDir, ManifestPath)
        /\ DeltaFound(fs, TargetDir)
        /\ force = TRUE)
       => (pc' = "fetch")]_vars

\* C3: after a run, for every output path held by a layer L1 and by a layer
\* L2 of the chain that includes L1 directly or transitively, the origin of
\* the path's manifest entry is not L1.
C3_OriginIsHigherLayer ==
    (pc = "done" /\ charm = TopCharm) =>
        \A i, j \in DOMAIN layers.layers :
            LET L1 == layers.layers[i].directory
                L2 == layers.layers[j].directory
                manifest == fs[TargetDir][ManifestPath]
            IN  \A p \in DOMAIN manifest :
                    (/\ L1 # L2
                     /\ L1 \in Reaches(fs, L2)
                     /\ HasFile(fs, L1, p)
                     /\ HasFile(fs, L2, p))
                    => manifest[p][1] # RepoPath(L1)

\* C4: a run in place (the top layer is the target) that follows a successful
\* run with no edit in between leaves the target, manifest included, as
\* that run left it.
C4_InPlaceIdentical ==
    [][(/\ pc = "manifest"
        /\ charm = TargetDir
        /\ last # None
        /\ ~edited)
       => (fs'[TargetDir] = last[1])]_vars

\* C5: no step of a run before the __call__ phase of exec_plan (validate,
\* fetch, planning, lint, read) writes to the file system.
C5_PlanningWritesNothing ==
    [][(pc \in {"validate", "fetch", "plan_layers", "plan_interfaces",
                "lint", "read"})
       => (fs' = fs)]_vars

\* C6: an entry of the top layer at a path that the top layer's own ignore
\* patterns match is planned, and the call of its tactic puts the top
\* layer's file into the target.
C6_OwnEntryNotIgnored ==
    [][(/\ pc = "call"
        /\ charm = TopCharm
        /\ plan[idx].current = TopCharm
        /\ plan[idx].cls = "CopyTactic"
        /\ Ignored(plan[idx].entity, Some(LoadConfig(fs, TopCharm))))
       => (/\ HasFile(fs', TargetDir, plan[idx].entity)
           /\ fs'[TargetDir][plan[idx].entity] = fs[TopCharm][plan[idx].entity])]_vars

\* C7: after a run, a dotted path that the top layer's config lists in the
\* deletes of metadata.yaml or of config.yaml (under options), and that the
\* top layer's own document does not define, is absent from the document
\* written to the target.
C7_TopDeletesAbsent ==
    (pc = "done" /\ charm = TopCharm /\ ~edited) =>
        \A cls \in {"MetadataYAML", "ConfigYAML"} :
            LET dels == DeletesOf(LoadConfig(fs, TopCharm), cls)
                own == IF HasFile(fs, TopCharm, EntityOf(cls))
                       THEN Namespace(cls, fs[TopCharm][EntityOf(cls)])
                       ELSE EmptyMap
            IN  HasFile(fs, TargetDir, EntityOf(cls)) =>
                    \A i \in DOMAIN dels :
                        ~DeletePathOk(dels[i], own) =>
                            ~DeletePathOk(dels[i],
                                Namespace(cls, fs[TargetDir][EntityOf(cls)]))

\* C8: the resolution of an include graph with a cycle ends with an error
\* that is raised on the revisit of a layer, not with the exhaustion of the
\* interpreter's recursion.
C8_CycleDetected ==
    [][(pc = "fetch" /\ Cyclic(fs, charm))
       => (pc' = "failed" /\ err' # "RuntimeError")]_vars

\* C9: in the resolved chain every layer appears exactly once.
C9_NoDuplicateLayer ==
    \A i, j \in DOMAIN layers.layers :
        i # j => layers.layers[i].directory # layers.layers[j].directory

\* C10: after a successful run with no later edit, the delta detector run on
\* the target reports no added, no changed and no deleted file.
C10_NoDeltaAfterRun ==
    (pc = "done" /\ ~edited) => ~DeltaFound(fs, TargetDir)

\* C11: the manifest maps a path to [origin, kind, digest].  After a run
\* that planned the top layer's metadata.yaml the entry of metadata.yaml is [top
\* layer, "dynamic", sha256 of the merged file in the target]; the turn of
\* the __call__ phase for a file the top layer holds to be copied verbatim
\* puts the file into the target, signed as [top layer, "static", sha256 of
\* the content].
C11_ManifestEntries ==
    /\ []((/\ pc = "done"
           /\ ~edited
           /\ \E i \in DOMAIN plan :
                  plan[i].entity = MetadataPath /\ plan[i].current = charm)
          => LET manifest == fs[TargetDir][ManifestPath]
             IN  /\ MetadataPath \in DOMAIN manifest
                 /\ manifest[MetadataPath] =
                        <<RepoPath(charm), "dynamic",
                          Sign(fs[TargetDir][MetadataPath])>>)
    /\ [][(/\ pc = "call"
           /\ plan[idx].cls = "CopyTactic"
           /\ plan[idx].current = charm)
          => LET p == plan[idx].entity
                 sig == TacticSign(fs', TargetDir, plan[idx])
             IN  /\ pc' # "failed"
                 /\ HasFile(fs', TargetDir, p)
                 /\ p \in DOMAIN sig
                 /\ sig[p] = <<RepoPath(charm), "static", Sign(fs[charm][p])>>]_vars

\* C12: after a run, for every relation of the final metadata whose
\* interface is the name of a fetched interface, the four hooks
\* hooks/<relation>-relation-{joined,changed,broken,departed} are in the
\* target with mode 0755; and no turn of the lint or __call__ phase for an
\* interface tactic of such a relation ends the run.
C12_RelationHooks ==
    /\ []((pc = "done" /\ ~edited /\ HasFile(fs, TargetDir, MetadataPath)) =>
            LET specs == Specs(fs[TargetDir][MetadataPath], KindOrder)
            IN  \A i \in DOMAIN layers.interfaces : \A j \in DOMAIN specs :
                    specs[j][3] = layers.interfaces[i].name =>
                        \A p \in BindPaths(specs[j][2]) :
                            /\ HasFile(fs, TargetDir, p)
                            /\ fs[TargetDir][p].mode = "0755")
    /\ [][(/\ pc \in {"lint", "call"}
           /\ plan[idx].cls \in InterfaceClasses
           /\ \E t \in {OdGet(output_files, MetadataPath)[1]} :
                  \E j \in DOMAIN Specs(t.data[1], KindOrder) :
                      Specs(t.data[1], KindOrder)[j] =
                          <<plan[idx].kind, plan[idx].relation_name,
                            plan[idx].iface.name>>)
          => (pc' # "failed")]_vars

\* C13: the turn of the __call__ phase for the top layer's composer.yaml
\* writes to the target the top layer's document with `is` the two-segment
\* path of the top layer (the `is` it already has when run in place from an
\* output), every entry of `includes` that is not an interface reference
\* replaced by its last two segments, in the same order, and every other
\* key as it was.
C13_ComposerYamlWritten ==
    [][(/\ pc = "call"
        /\ plan[idx].cls = "ComposerYAML"
        /\ plan[idx].current = charm)
       => LET doc == fs[charm][ComposerPath]
              refs == Get(doc, "includes", NoIncludes).refs
          IN  /\ pc' # "failed"
              /\ HasFile(fs', TargetDir, ComposerPath)
              /\ LET out == fs'[TargetDir][ComposerPath]
                 IN  /\ DOMAIN out = DOMAIN doc \cup {"is"}
                     /\ out["is"] = IF "is" \in DOMAIN doc THEN doc["is"]
                                    ELSE LastTwo(charm)
                     /\ "includes" \in DOMAIN doc =>
                            out["includes"].refs =
                                [i \in DOMAIN refs |->
                                    IF refs[i] = IfaceRef THEN refs[i]
                                    ELSE LastTwo(refs[i])]
                     /\ \A k \in DOMAIN doc \ {"is", "includes"} :
                            out[k] = doc[k]]_vars

\* C14: when at least one interface was fetched and the plan holds no tactic
\* for metadata.yaml, plan_interfaces ends the run with an error: nothing is
\* written and no phase of exec_plan is entered.
C14_MissingMetadataFails ==
    [][(/\ pc = "plan_interfaces"
        /\ layers.interfaces # <<>>
        /\ \A i \in DOMAIN plan : plan[i].entity # MetadataPath)
       => (/\ pc' = "failed"
           /\ err' = "ValueError"
           /\ fs' = fs
           /\ plan' = plan
           /\ signatures' = signatures)]_vars

\* A run ended by plan_interfaces for an interface without metadata.yaml, the
\* one metadata.yaml of the layers having been ignored.
C14_Witness ==
    /\ pc = "failed"
    /\ err = "ValueError"
    /\ layers.interfaces # <<>>
    /\ plan # <<>>
    /\ \A i \in DOMAIN plan : plan[i].entity # MetadataPath
    /\ OdGet(output_files, MetadataPath) = None
    /\ \E i \in DOMAIN output_files : output_files[i][1] = MetadataPath

\* C15: whatever the layers' ignore lists hold, an entry of a layer that the
\* built-in ignore list matches (here a *.pyc file) gets no tactic and is
\* not in the target.
C15_BuiltinIgnored ==
    /\ \A i \in DOMAIN output_files :
           output_files[i][1].ext = ".pyc" => output_files[i][2] = None
    /\ \A i \in DOMAIN plan : plan[i].entity.ext # ".pyc"
    /\ Exists(fs, TargetDir) => \A p \in DOMAIN fs[TargetDir] : p.ext # ".pyc"

\* C16: when the top layer's composer.yaml is missing or empty the run ends
\* in fetch with no include resolved, no plan built and nothing written;
\* when the top layer is configured, fetch does not end the run for want of
\* a configured layer, whether or not the base layers have a composer.yaml.
C16_TopMustBeConfigured ==
    [][(pc = "fetch" /\ Exists(fs, charm))
       => IF HasFile(fs, charm, ComposerPath) /\ DOMAIN fs[charm][ComposerPath] # {}
          THEN ~(pc' = "failed" /\ err' = "ValueError")
          ELSE /\ pc' = "failed"
               /\ err' = "ValueError"
               /\ layers' = [layers |-> <<>>, interfaces |-> <<>>]
               /\ output_files' = <<>>
               /\ plan' = <<>>
               /\ fs' = fs]_vars

\* A run ended by fetch on a top layer whose composer.yaml is empty.
C16_Witness ==
    /\ pc = "failed"
    /\ err = "ValueError"
    /\ HasFile(fs, charm, ComposerPath)
    /\ fs[charm][ComposerPath] = EmptyMap
    /\ layers.layers = <<>>

\* C17: exec_plan goes through the plan in plan order once per phase, in the
\* order lint, read, __call__, sign: a phase is left only after its turn
\* for the last tactic, for the first tactic of the next phase; the plan
\* keeps its tactics' paths throughout; the manifest is written only after
\* the last turn of sign.
C17_PhaseOrder ==
    [][/\ (pc \in {"lint", "read", "call", "sign"} /\ pc' # "failed") =>
            /\ [i \in DOMAIN plan' |-> plan'[i].entity] =
                   [i \in DOMAIN plan |-> plan[i].entity]
            /\ IF idx < Len(plan)
               THEN pc' = pc /\ idx' = idx + 1
               ELSE /\ idx = Len(plan)
                    /\ <<pc, pc'>> \in {<<"lint", "read">>, <<"read", "call">>,
                                       <<"call", "sign">>, <<"sign", "manifest">>}
                    /\ idx' = 1
       /\ (pc' \in {"read", "call", "sign"} /\ pc' # pc) =>
              pc \in {"lint", "read", "call"}
       /\ (pc' = "manifest") => (pc = "sign" \/ plan' = <<>>)
       /\ (pc # "done" /\ pc' = "done") => pc = "manifest"
       /\ (HasFile(fs', TargetDir, ManifestPath) /\
           (~HasFile(fs, TargetDir, ManifestPath) \/
            fs'[TargetDir][ManifestPath] # fs[TargetDir][ManifestPath]))
              => pc = "manifest"]_vars

\* The manifest about to be written after four phases over a plan of more
\* than one tactic.
C17_Witness ==
    /\ pc = "manifest"
    /\ Len(plan) >= 3
    /\ \E i, j \in DOMAIN plan :
           /\ i < j
           /\ plan[i].entity \in DOMAIN signatures
           /\ plan[j].entity \in DOMAIN signatures

\* C18: after plan_layers every path has one entry in output_files and one
\* tactic at most in the plan, the tactic made from the last layer of the
\* chain that holds the path; a walk leaves the paths already in
\* output_files at their positions, and the plan has the tactics in the
\* order of those positions.
C18_OneTacticPerPath ==
    /\ []((pc = "plan_interfaces") =>
            /\ \A i, j \in DOMAIN output_files :
                   output_files[i][1] = output_files[j][1] => i = j
            /\ \A i, j \in DOMAIN plan :
                   plan[i].entity = plan[j].entity => i = j
            /\ \A i \in DOMAIN plan :
                   LET chain == layers.layers
                       holders == {k \in DOMAIN chain :
                                      HasFile(fs, chain[k].directory, plan[i].entity)}
                   IN  /\ holders # {}
                       /\ \E k \in holders :
                              /\ \A h \in holders : h <= k
                              /\ plan[i].current = chain[k].directory)
    /\ [][(pc = "plan_layers" /\ pc' # "failed") =>
            /\ Len(output_files') >= Len(output_files)
            /\ \A i \in DOMAIN output_files :
                   output_files'[i][1] = output_files[i][1]
            /\ pc' = "plan_interfaces" =>
                   \A i, j \in DOMAIN plan' :
                       i < j =>
                           \E k, l \in DOMAIN output_files' :
                               /\ k < l
                               /\ output_files'[k][1] = plan'[i].entity
                               /\ output_files'[l][1] = plan'[j].entity]_vars

\* The layers planned with metadata.yaml, held by a and by the top layer,
\* first in the plan with the top layer's tactic, before the top layer's
\* composer.yaml.
C18_Witness ==
    /\ pc = "plan_interfaces"
    /\ Len(plan) >= 2
    /\ plan[1].entity = MetadataPath
    /\ plan[1].current = charm
    /\ plan[2].entity = ComposerPath
    /\ HasFile(fs, LayerDir("a"), MetadataPath)
    /\ layers.layers[1].directory = LayerDir("a")

\* C19: a tactic that plan_layers made from a file of the layer at index i
\* of the chain has as config the config of the layer at index i + 1, and
\* none when the layer is the last, the top layer; the phases of exec_plan
\* leave the config of a tactic as it was planned.
C19_ConfigOfNextLayer ==
    /\ []((pc \in {"plan_layers", "plan_interfaces"}) =>
            \A i \in DOMAIN output_files :
                output_files[i][2] # None =>
                    LET t == output_files[i][2][1]
                        chain == layers.layers
                    IN  \E k \in DOMAIN chain :
                            /\ chain[k].directory = t.current
                            /\ k < Len(chain) => t.config = <<chain[k + 1].config>>
                            /\ k = Len(chain) => t.config = <<>>)
    /\ [][(pc \in {"plan_interfaces", "lint", "read", "call", "sign"}
           /\ pc' # "failed") =>
              \A i \in DOMAIN plan : plan'[i].config = plan[i].config]_vars

\* The layers planned: a tactic of the base layer a with the top layer's
\* config, which has an ignore list, and a tactic of the top layer with none.
C19_Witness ==
    /\ pc = "plan_interfaces"
    /\ charm = TopCharm
    /\ Len(layers.layers) = 2
    /\ "ignore" \in DOMAIN layers.layers[2].config
    /\ \E i, j \in DOMAIN plan :
           /\ plan[i].current = LayerDir("a")
           /\ plan[i].config = <<layers.layers[2].config>>
           /\ plan[j].current = TopCharm
           /\ plan[j].config = <<>>

\* C20: the walk by plan_layers of a layer L with an entry that an ignore
\* pattern of the next layer of the chain matches does not end the run on
\* that entry, and leaves the path with what was planned for it below L:
\* the tactic it had, or none.
C20_IgnoredEntrySkipped ==
    [][(pc = "plan_layers" /\ idx < Len(layers.layers)) =>
          LET L == layers.layers[idx].directory
              ignore == Get(layers.layers[idx + 1].config, "ignore", <<>>)
          IN  \A p \in DOMAIN fs[L] :
                  (\E i \in DOMAIN ignore : Fnmatch(p, ignore[i])) =>
                      /\ ~(pc' = "failed" /\ err' = "AttributeError")
                      /\ pc' # "failed" =>
                             OdGet(output_files', p) = OdGet(output_files, p)]_vars

C24_DeltaClasses ==
    HasFile(fs, TargetDir, ManifestPath) =>
        LET disk == DOMAIN fs[TargetDir]
            manifest == fs[TargetDir][ManifestPath]
            add == DeltaAdded(fs, TargetDir)
            change == DeltaChanged(fs, TargetDir)
            delete == DeltaDeleted(fs, TargetDir)
        IN  \A p \in disk \cup DOMAIN manifest :
                /\ p \in add <=> (p \in disk /\ p \notin DOMAIN manifest)
                /\ p \in change <=>
                       /\ p \in disk
                       /\ p \in DOMAIN manifest
                       /\ manifest[p][3] # Sign(fs[TargetDir][p])
                       /\ manifest[p][1] # <<"composer">>
                /\ p \in delete <=> (p \in DOMAIN manifest /\ p \notin disk)
                /\ (/\ p \in disk
                    /\ p \in DOMAIN manifest
                    /\ \/ manifest[p][3] = Sign(fs[TargetDir][p])
                       \/ manifest[p][1] = <<"composer">>)
                       => p \notin add \cup change \cup delete

\* A target edited by hand after a run: one file of a layer is in changed, and
\* the manifest, whose own entry has origin composer and another digest than
\* the file, is in none of the sets.
C24_Witness ==
    /\ HasFile(fs, TargetDir, ManifestPath)
    /\ edited
    /\ DeltaChanged(fs, TargetDir) # {}
    /\ ManifestPath \in DOMAIN fs[TargetDir][ManifestPath]
    /\ fs[TargetDir][ManifestPath][ManifestPath][1] = <<"composer">>
    /\ fs[TargetDir][ManifestPath][ManifestPath][3] # Sign(fs[TargetDir][ManifestPath])
    /\ ManifestPath \notin DeltaChanged(fs, TargetDir)

\* C27: when interface planning has completed, every InterfaceCopy and
\* InterfaceBind of the plan is for a relation of the merged metadata whose
\* interface is the name of the tactic's interface, and a fetched interface
\* no relation uses has no tactic in the plan.
C27_MatchingPairsOnly ==
    (pc \in {"lint", "read", "call", "sign"} /\ OdGet(output_files, MetadataPath) # None) =>
        LET specs == Specs(OdGet(output_files, MetadataPath)[1].data[1], KindOrder)
        IN  \A i \in DOMAIN plan :
                plan[i].cls \in InterfaceClasses =>
                    \E j \in DOMAIN specs :
                        /\ specs[j][2] = plan[i].relation_name
                        /\ specs[j][3] = plan[i].iface.name

\* C28: the turn of the __call__ phase for an InterfaceCopy does not end the
\* run, and after it every file of the interface its config does not ignore
\* is under hooks/relations/<name> in the target, __init__.py is there, and
\* every file that was under hooks/relations/<name> before has the content
\* it had; this also when the directory was there before the turn.
C28_InterfaceCopied ==
    [][(pc = "call" /\ plan[idx].cls = "InterfaceCopy") =>
          (LET t == plan[idx]
               dir == RelationsDir(t.iface.name)
               config == t.config[1]
           IN  /\ pc' # "failed"
               /\ \A q \in DOMAIN fs[t.iface.directory] :
                      ("ignores" \in DOMAIN config =>
                           IgnoreMatcher(config["ignores"], q))
                          => HasFile(fs', TargetDir, Rel(dir, q.stem, q.ext))
               /\ HasFile(fs', TargetDir, InitPath(t.iface.name))
               /\ \A p \in DOMAIN fs[TargetDir] :
                      p.dir = dir =>
                          /\ HasFile(fs', TargetDir, p)
                          /\ fs'[TargetDir][p] = fs[TargetDir][p])]_vars

\* C26: in every turn of plan_layers that walks a layer holding a README.md
\* the next layer's config does not ignore, the tactic planned for it is of
\* the custom class ReadmeTactic exactly when the config of the next layer
\* in the chain declares that class; the layer's own declaration does not
\* count, and the top layer, with no layer above, gets the registry alone.
C26_CustomTacticsOfConfigLayer ==
    [][(/\ pc = "plan_layers"
        /\ pc' # "failed"
        /\ HasFile(fs, layers.layers[idx].directory, ReadmePath)
        /\ OdGet(output_files', ReadmePath) # None) =>
          (LET next == NextConfig(layers.layers, idx)
               declared == IF next = None THEN <<>>
                           ELSE Get(next[1], "tactics", <<>>)
           IN  OdGet(output_files', ReadmePath)[1].cls = "ReadmeTactic"
                   <=> \E i \in DOMAIN declared : declared[i] = "ReadmeTactic")]_vars

\* C22: deepmerge(dest, src) on two documents returns, and its result has
\* the keys of both; a key of dest alone keeps its value; a key of src whose
\* values in dest and src are both mappings holds their merge (a key of the
\* inner dest alone kept, a key of the inner src with src's value); any
\* other key of src holds src's value: a mapping replaces a scalar or a
\* list, a scalar replaces a mapping, a list replaces a list.
C22_DeepmergeOverlay ==
    (result # None /\ call[1].fn = "deepmerge") =>
        LET dest == call[1].dest
            src == call[1].src
            r == result[1]
        IN  /\ r.ok
            /\ DOMAIN r.v = DOMAIN dest \cup DOMAIN src
            /\ \A k \in DOMAIN r.v :
                   IF k \notin DOMAIN src THEN r.v[k] = dest[k]
                   ELSE IF k \in DOMAIN dest /\ dest[k].tag = "map" /\ src[k].tag = "map"
                   THEN /\ r.v[k].tag = "map"
                        /\ DOMAIN r.v[k].m = DOMAIN dest[k].m \cup DOMAIN src[k].m
                        /\ \A j \in DOMAIN r.v[k].m :
                               r.v[k].m[j] = IF j \in DOMAIN src[k].m
                                             THEN src[k].m[j] ELSE dest[k].m[j]
                   ELSE r.v[k] = src[k]

\* C23: delete_path on a dotted path whose keys are all there returns with
\* the last key removed from the mapping the keys before it lead to, every
\* other key of that mapping and of the mappings around it as it was; on a
\* path with a missing key before the last it raises and the document is as
\* it was.
C23_DeletePathExact ==
    (result # None /\ call[1].fn = "delete_path") =>
        LET parts == call[1].parts
            obj == call[1].obj
            r == result[1]
        IN  /\ (Len(parts) = 1 /\ parts[1] \in DOMAIN obj) =>
                   /\ r.ok
                   /\ DOMAIN r.v = DOMAIN obj \ {parts[1]}
                   /\ \A k \in DOMAIN r.v : r.v[k] = obj[k]
            /\ (/\ Len(parts) = 2
                /\ parts[1] \in DOMAIN obj
                /\ obj[parts[1]].tag = "map"
                /\ parts[2] \in DOMAIN obj[parts[1]].m) =>
                   /\ r.ok
                   /\ DOMAIN r.v = DOMAIN obj
                   /\ \A k \in DOMAIN obj \ {parts[1]} : r.v[k] = obj[k]
                   /\ r.v[parts[1]].tag = "map"
                   /\ DOMAIN r.v[parts[1]].m = DOMAIN obj[parts[1]].m \ {parts[2]}
                   /\ \A j \in DOMAIN r.v[parts[1]].m :
                          r.v[parts[1]].m[j] = obj[parts[1]].m[j]
            /\ (Len(parts) > 1 /\ parts[1] \notin DOMAIN obj) =>
                   (~r.ok /\ r.v = obj)
            /\ (/\ Len(parts) > 2
                /\ parts[1] \in DOMAIN obj
                /\ obj[parts[1]].tag = "map"
                /\ parts[2] \notin DOMAIN obj[parts[1]].m) =>
                   (~r.ok /\ r.v = obj)

\* delete_path has removed c from the mapping under a, which also holds d,
\* in a document that also holds b.
C23_Witness ==
    /\ result # None
    /\ call[1].fn = "delete_path"
    /\ call[1].parts = <<"a", "c">>
    /\ DOMAIN call[1].obj = {"a", "b"}
    /\ call[1].obj["a"].tag = "map"
    /\ DOMAIN call[1].obj["a"].m = {"c", "d"}
    /\ result[1].ok
    /\ DOMAIN result[1].v["a"].m = {"d"}

\* C25: ComposerConfig.tactic on an entry no `ignore` pattern of the next
\* config matches returns a tactic, of the first class whose trigger accepts
\* the path in the order: the classes the config declares, ManifestTactic,
\* InstallerTactic, MetadataYAML, ConfigYAML, ComposerYAML, HookTactic,
\* ActionTactic, CopyTactic.  With no class declared hooks/x.pypi gets an
\* InstallerTactic and sub/metadata.yaml a CopyTactic.
C25_FirstTriggeredClass ==
    (result # None /\ call[1].fn = "tactic") =>
        LET rel == call[1].entity
            declared == call[1].current.config["tactics"]
            next == call[1].next_config
            ignored == /\ next # None
                       /\ "ignore" \in DOMAIN next[1]
                       /\ \E i \in DOMAIN next[1]["ignore"] :
                              Fnmatch(rel, next[1]["ignore"][i])
            order == declared \o <<"ManifestTactic", "InstallerTactic",
                                   "MetadataYAML", "ConfigYAML", "ComposerYAML",
                                   "HookTactic", "ActionTactic", "CopyTactic">>
            v == result[1].v
        IN  ~ignored =>
               /\ v # ""
               /\ \E i \in DOMAIN order :
                      /\ order[i] = v
                      /\ Trigger(order[i], rel)
                      /\ \A j \in 1..(i - 1) : ~Trigger(order[j], rel)
               /\ (declared = <<>> /\ rel = Rel("hooks", "x", ".pypi")) =>
                      v = "InstallerTactic"
               /\ (declared = <<>> /\ rel = Rel("sub", "metadata", ".yaml")) =>
                      v = "CopyTactic"
               /\ (declared = <<>> /\ rel = MetadataPath) => v = "MetadataYAML"
               /\ (declared = <<>> /\ rel = HookPath) => v = "HookTactic"

\* README.md dispatched by a config that declares Tactic, which accepts
\* nothing, and then ReadmeTactic, under a next config whose ignore pattern
\* does not match: the tactic is a ReadmeTactic.
C25_Witness ==
    /\ result # None
    /\ call[1].fn = "tactic"
    /\ call[1].entity = ReadmePath
    /\ call[1].current.config["tactics"] = <<"Tactic", "ReadmeTactic">>
    /\ call[1].next_config = Some("ignore" :> <<Rel("*", "*", ".yaml")>>)
    /\ result[1].v = "ReadmeTactic"

\* C29: for a config made by new_child of a parent config, tactics() returns
\* the classes of the child, then those of the parent, then the registry,
\* each list in its order and with its duplicates.
C29_ChildThenParentTactics ==
    (result # None /\ call[1].fn = "new_child") =>
        /\ result[1].ok
        /\ result[1].v = call[1].child \o call[1].parent \o
                             <<"ManifestTactic", "InstallerTactic", "MetadataYAML",
                               "ConfigYAML", "ComposerYAML", "HookTactic",
                               "ActionTactic", "CopyTactic">>

\* C30: the turn of the __call__ phase for the tactic of metadata.yaml, which
\* interface planning has invoked before, does not end the run and leaves in
\* the target the document that first invocation wrote.
C30_SecondCallSame ==
    [][(pc = "call" /\ plan[idx].cls = "MetadataYAML") =>
          (/\ pc' # "failed"
           /\ HasFile(fs, TargetDir, MetadataPath)
           /\ HasFile(fs', TargetDir, MetadataPath)
           /\ fs'[TargetDir][MetadataPath] = fs[TargetDir][MetadataPath])]_vars

====
